---- MODULE Spec2Model ----
(***************************************************************************)
(* Model of src/src/security/index.js: the security helper of botpress.    *)
(* It issues (buildToken), verifies (authenticateWithError, authenticate,  *)
(* getUserIdentity) and refreshes (refreshToken) bearer tokens, on top of  *)
(* the Authentication and Cloud collaborators and of the jsonwebtoken      *)
(* primitives jwt.sign / jwt.verify.                                       *)
(*                                                                         *)
(* Every operation is one action.  What a collaborator answers during a    *)
(* call (a value, or a thrown error) is chosen nondeterministically, and   *)
(* the calls made are logged, in order, in last.calls.                     *)
(***************************************************************************)
EXTENDS Integers, Sequences, FiniteSets, TLC

\* ---------------------------------------------------------------- bounds
MaxTime == 1        \* the clock runs over 0..MaxTime
TokenExpiry == 1    \* securityConfig.tokenExpiry, in clock ticks

\* ------------------------------------------------------- JavaScript values
Undefined == "undefined"
Null == "null"
JsFalse == "false"
JsTrue == "true"

\* ------------------------------------------------------------ input sets
Users == {"admin", "eve"}
Passwords == {"pw", "bad"}
Ips == {"all", "ip1"}
RootUser == "admin"
RootPassword == "pw"
Principals == {"admin"}
Secrets == {"s1", "s2"}
Certificates == {"c1"}
BotIds == {"bot1"}
Schemes == {"Bearer", "Basic"}
BotEnvs == {"dev", "prod"}
CloudEndpoints == {"e1", "e2"}

\* --------------------------------------------------------------- messages
RootDisabledReason == "Root authentication is disabled when using Botpress Cloud [BPCLOUDERR]"
ThrottledReason == "Too many login attempts. Try again later."
BadCredentialsReason == "Bad username / password"
TokenInvalidMessage == "The token is invalid or expired"
WrongSchemeMessage(scheme) == <<"Wrong scheme ", scheme, ", expected Bearer">>
Msg(text) == <<text>>
NoMessage == <<>>

\* ----------------------------------------------------------------- tokens
\* `urn:bot/${botId}`: the template renders an undefined botId as "undefined".
Urn(id) == <<"urn:bot/", id>>
NoAud == <<>>

\* A token is what jwt.sign produced: the algorithm of its header, the key
\* its signature was made with (a secret for HS256; for RS256 the private
\* key matching that certificate), and its claims.
NoToken == [form |-> "undefined", alg |-> "", key |-> "", user |-> Undefined, iss |-> "",
            aud |-> NoAud, identity_proof_only |-> FALSE, exp |-> 0]
Garbage == [form |-> "garbage", alg |-> "", key |-> "", user |-> Undefined, iss |-> "",
            aud |-> NoAud, identity_proof_only |-> FALSE, exp |-> 0]
Algorithms == {"HS256", "RS256"}
\* The tokens presented from outside expire when the clock reaches MaxTime.
Expiries == {MaxTime}
Audiences == {NoAud, Urn(Undefined)} \cup {Urn(b) : b \in BotIds}
SignedTokens == [form : {"jwt"}, alg : Algorithms, key : Secrets \cup Certificates,
                 user : Principals, iss : {"bot.root"}, aud : Audiences,
                 identity_proof_only : BOOLEAN, exp : Expiries]
Tokens == SignedTokens \cup {Garbage}

\* jwt.sign({ user }, secret, { issuer: 'bot.root', expiresIn, algorithm: 'HS256' })
JwtSign(user, key, time) ==
    [form |-> "jwt", alg |-> "HS256", key |-> key, user |-> user, iss |-> "bot.root",
     aud |-> NoAud, identity_proof_only |-> FALSE, exp |-> time + TokenExpiry]

\* jwt.verify with ignoreExpiration: an expired token still verifies.
JwtVerifyIgnoringExpiry(token, key, algorithm, time) ==
    /\ token.form = "jwt"
    /\ token.alg = algorithm
    /\ token.key = key

\* jwt.verify without the algorithms option: the algorithm of the token's own
\* header is trusted.
JwtVerifyAnyAlgorithm(token, key, algorithm, time) ==
    /\ token.form = "jwt"
    /\ token.key = key
    /\ time < token.exp

\* jwt.verify(token, secret, { algorithms: [algorithm] }) returns the claims
\* iff the token is a JWT of that very algorithm, signed with that key, and
\* not expired; it throws otherwise.
JwtVerifyOk(token, key, algorithm, time) ==
    /\ token.form = "jwt"
    /\ token.alg = algorithm
    /\ token.key = key
    /\ time < token.exp

\* ---------------------------------------------------------------- headers
\* An authorization header is its words, joined by single spaces;
\* NoHeader is a request without the header (authHeader undefined).
NoHeader == [defined |-> FALSE, words |-> <<>>]
MkHeader(words) == [defined |-> TRUE, words |-> words]
Bearer(token) == MkHeader(<<[scheme |-> "Bearer", token |-> NoToken], [scheme |-> "", token |-> token]>>)
\* A header of three words: a scheme, a token, and one more word.
TrailingWord(scheme, token) ==
    MkHeader(<<[scheme |-> scheme, token |-> NoToken], [scheme |-> "", token |-> token],
               [scheme |-> "extra", token |-> NoToken]>>)
Headers ==
    {NoHeader}
      \cup {MkHeader(<<[scheme |-> s, token |-> NoToken]>>) : s \in Schemes}
      \cup {MkHeader(<<[scheme |-> s, token |-> NoToken], [scheme |-> "", token |-> t]>>) :
              s \in Schemes, t \in Tokens}
      \cup {TrailingWord(s, Garbage) : s \in Schemes}

\* const [scheme, token] = authHeader.split(' ')
SplitScheme(h) == h.words[1].scheme
SplitToken(h) == IF Len(h.words) >= 2 THEN h.words[2].token ELSE NoToken

\* ------------------------------------------------------------------ state
VARIABLES
    useCloud,       \* securityConfig.useCloud
    isCloudPaired,  \* useCloud && (await cloud.isPaired()), captured at construction
    botId,          \* cloud.getPairingInfo().botId when paired, undefined otherwise
    loginEnabled,   \* securityConfig.enabled
    hookPresent,    \* whether the Authentication collaborator exposes verifyUser
    secret,         \* what authentication.getSecret() answers at present
    certificate,    \* what cloud.getCertificate() answers at present
    now,            \* the clock jwt.sign and jwt.verify read
    last            \* the most recent call: operation, arguments, outcome, calls
                    \* made; reduced to the token the client keeps once the
                    \* clock or the secret has moved on

vars == <<useCloud, isCloudPaired, botId, loginEnabled, hookPresent, secret, certificate, now, last>>

NoCredentials == [user |-> "", password |-> "", ip |-> ""]

\* ------------------------------------------------------- outcomes of a call
\* A call either returns or throws.  ret is the value of the operations that
\* return a principal or false; success, reason and token are the fields of
\* the object login and refreshToken return.
Call(fn, out) == [fn |-> fn, out |-> out]
Returned(value, calls) ==
    [threw |-> FALSE, error |-> NoMessage, ret |-> value, success |-> "", reason |-> NoMessage,
     token |-> NoToken, calls |-> calls]
Threw(message, calls) ==
    [threw |-> TRUE, error |-> message, ret |-> Undefined, success |-> "", reason |-> NoMessage,
     token |-> NoToken, calls |-> calls]
Success(token, calls) ==
    [threw |-> FALSE, error |-> NoMessage, ret |-> "object", success |-> JsTrue, reason |-> NoMessage,
     token |-> token, calls |-> calls]
Failure(reason, calls) ==
    [threw |-> FALSE, error |-> NoMessage, ret |-> "object", success |-> JsFalse, reason |-> reason,
     token |-> NoToken, calls |-> calls]

\* What a failing collaborator throws: an error with or without a message.
CollaboratorErrors(fn) == {Msg(fn), NoMessage}

\* -------------------------------------------------- verification material
\* lines 78-84 and 120-126: certificate + RS256 when paired, secret + HS256 otherwise
KeyFn == IF isCloudPaired THEN "cloud.getCertificate" ELSE "authentication.getSecret"
\* The secret read once and kept: the verifier goes on using the first secret.
KeyMaterialCached == IF isCloudPaired THEN certificate ELSE "s1"
KeyMaterial == IF isCloudPaired THEN certificate ELSE secret
ModeAlgorithm == IF isCloudPaired THEN "RS256" ELSE "HS256"

\* authentication.verifyUser ? await authentication.verifyUser(decoded) : true
\* The answers the hook can give in one call; "skip" when there is no hook.
HookAnswers == IF hookPresent THEN {JsTrue, JsFalse, "throw"} ELSE {"skip"}
HookCalls(answer) == IF answer = "skip" THEN <<>> ELSE <<Call("authentication.verifyUser", answer)>>
Verified(answer) == answer \in {"skip", JsTrue}

\* Returning decoded.user whatever the hook answered.
VerifiedUserIgnoringHook(verified, decoded) == decoded.user

\* verified && decoded.user
VerifiedUser(verified, decoded) == IF verified THEN decoded.user ELSE JsFalse

\* The checks of authenticateWithError without the one on identity_proof_only.
SessionPolicyWithoutProofCheck(decoded, verified) ==
    IF decoded.aud # Urn(botId) THEN JsFalse
    ELSE VerifiedUser(verified, decoded)

\* lines 89-97: the checks authenticateWithError makes on the decoded claims
SessionPolicy(decoded, verified) ==
    IF decoded.identity_proof_only THEN JsFalse
    ELSE IF decoded.aud # Urn(botId) THEN JsFalse
    ELSE VerifiedUser(verified, decoded)

\* getUserIdentity without its audience check.
IdentityPolicyWithoutAudience(decoded, verified) == VerifiedUser(verified, decoded)

\* lines 131-135: the checks getUserIdentity makes on the decoded claims
IdentityPolicy(decoded, verified) ==
    IF decoded.aud # Urn(botId) THEN JsFalse
    ELSE VerifiedUser(verified, decoded)

\* --------------------------------------------------------------- buildToken
\* The outcomes of buildToken(loginUser): getSecret may throw, else jwt.sign.
BuildToken(loginUser) ==
    {Threw(e, <<Call("authentication.getSecret", "throw")>>) :
        e \in CollaboratorErrors("authentication.getSecret")}
      \cup {Success(JwtSign(loginUser, secret, now),
                    <<Call("authentication.getSecret", secret), Call("jwt.sign", "ok")>>)}

\* ---------------------------------------------------- authenticateWithError
\* authenticateWithError resolving the key material before it looks at the scheme.
AuthenticateWithErrorFetchingFirst(authHeader) ==
    IF ~authHeader.defined THEN {Threw(Msg("TypeError"), <<>>)}
    ELSE LET token == SplitToken(authHeader)
             fetched == <<Call(KeyFn, KeyMaterial)>>
         IN  {Threw(Msg(TokenInvalidMessage), <<Call(KeyFn, "throw")>>)}
               \cup
             (IF SplitScheme(authHeader) # "Bearer"
              THEN {Threw(WrongSchemeMessage(SplitScheme(authHeader)), fetched)}
              ELSE IF ~JwtVerifyOk(token, KeyMaterial, ModeAlgorithm, now)
              THEN {Threw(Msg(TokenInvalidMessage), fetched \o <<Call("jwt.verify", "throw")>>)}
              ELSE {IF answer = "throw"
                    THEN Threw(Msg(TokenInvalidMessage),
                               fetched \o <<Call("jwt.verify", "ok")>> \o HookCalls(answer))
                    ELSE Returned(SessionPolicy(token, Verified(answer)),
                                  fetched \o <<Call("jwt.verify", "ok")>> \o HookCalls(answer))
                    : answer \in HookAnswers})

\* The outcomes of authenticateWithError(authHeader).  Whatever is thrown
\* inside the try block (key fetch, jwt.verify, the hook) is rethrown as the
\* token-invalid error; the split and the scheme check are outside of it.
AuthenticateWithError(authHeader) ==
    IF ~authHeader.defined THEN {Threw(Msg("TypeError"), <<>>)}
    ELSE IF SplitScheme(authHeader) # "Bearer"
    THEN {Threw(WrongSchemeMessage(SplitScheme(authHeader)), <<>>)}
    ELSE LET token == SplitToken(authHeader)
             fetched == <<Call(KeyFn, KeyMaterial)>>
         IN  {Threw(Msg(TokenInvalidMessage), <<Call(KeyFn, "throw")>>)}
               \cup
             (IF ~JwtVerifyOk(token, KeyMaterial, ModeAlgorithm, now)
              THEN {Threw(Msg(TokenInvalidMessage), fetched \o <<Call("jwt.verify", "throw")>>)}
              ELSE {IF answer = "throw"
                    THEN Threw(Msg(TokenInvalidMessage),
                               fetched \o <<Call("jwt.verify", "ok")>> \o HookCalls(answer))
                    ELSE Returned(SessionPolicy(token, Verified(answer)),
                                  fetched \o <<Call("jwt.verify", "ok")>> \o HookCalls(answer))
                    : answer \in HookAnswers})

\* ------------------------------------------------------------ authenticate
\* authenticate without its try block.
AuthenticateWithoutCatch(authHeader) == AuthenticateWithError(authHeader)

\* authenticate accepting a token once: a header that was accepted by the
\* preceding call is turned down.
AuthenticateOnce(authHeader) ==
    IF last.op = "authenticate" /\ last.header = authHeader /\ last.ret \in Principals
    THEN {Returned(JsFalse, <<>>)}
    ELSE {IF o.threw THEN Returned(JsFalse, o.calls) ELSE o : o \in AuthenticateWithError(authHeader)}

\* try { return await authenticateWithError(authHeader) } catch (err) { return false }
Authenticate(authHeader) ==
    {IF o.threw THEN Returned(JsFalse, o.calls) ELSE o : o \in AuthenticateWithError(authHeader)}

\* ---------------------------------------------------------- getUserIdentity
\* The outcomes of getUserIdentity(token): no try block, so every failure of
\* the key fetch, of jwt.verify or of the hook leaves the call as thrown.
GetUserIdentity(token) ==
    LET fetched == <<Call(KeyFn, KeyMaterial)>>
    IN  {Threw(e, <<Call(KeyFn, "throw")>>) : e \in CollaboratorErrors(KeyFn)}
          \cup
        (IF ~JwtVerifyOk(token, KeyMaterial, ModeAlgorithm, now)
         THEN {Threw(Msg("JsonWebTokenError"), fetched \o <<Call("jwt.verify", "throw")>>)}
         ELSE UNION {IF answer = "throw"
                     THEN {Threw(e, fetched \o <<Call("jwt.verify", "ok")>> \o HookCalls(answer)) :
                             e \in CollaboratorErrors("authentication.verifyUser")}
                     ELSE {Returned(IdentityPolicy(token, Verified(answer)),
                                    fetched \o <<Call("jwt.verify", "ok")>> \o HookCalls(answer))}
                     : answer \in HookAnswers})

\* ------------------------------------------------------------------- login
\* authentication.authenticate(user, password, ip): the principal for the
\* root user's credentials, null for any other.
CheckCredentials(user, password) ==
    IF user = RootUser /\ password = RootPassword THEN user ELSE Null

\* return { success: true, token: await buildToken(loginUser) }; a failure of
\* buildToken leaves the calling operation as thrown.
Issue(loginUser, calls) ==
    {IF b.threw THEN Threw(b.error, calls \o b.calls) ELSE Success(b.token, calls \o b.calls) :
       b \in BuildToken(loginUser)}

\* login checking the credentials also when the throttle gate denies the attempt.
LoginIgnoringThrottle(user, password, ip) ==
    LET loginUser == CheckCredentials(user, password)
    IN  UNION {LET checked == <<Call("authentication.attempt", gate),
                                Call("authentication.authenticate", loginUser)>>
               IN  IF loginUser # Null
                   THEN Issue(loginUser, checked)
                   ELSE {Failure(Msg(BadCredentialsReason), checked)}
               : gate \in {JsTrue, JsFalse}}

\* login telling an unknown user from a wrong password.
LoginRevealingFactor(user, password, ip) ==
    LET permitted == <<Call("authentication.attempt", JsTrue)>>
        loginUser == CheckCredentials(user, password)
        checked == permitted \o <<Call("authentication.authenticate", loginUser)>>
    IN  {Failure(Msg(ThrottledReason), <<Call("authentication.attempt", JsFalse)>>)}
          \cup (IF loginUser # Null
                THEN Issue(loginUser, checked)
                ELSE {Failure(Msg(IF user # RootUser THEN "Unknown user" ELSE BadCredentialsReason),
                              checked)})

\* lines 38-55: throttle gate, credential check, issuance.
LoginUnpaired(user, password, ip) ==
    LET permitted == <<Call("authentication.attempt", JsTrue)>>
        loginUser == CheckCredentials(user, password)
        checked == permitted \o <<Call("authentication.authenticate", loginUser)>>
    IN  {Threw(e, <<Call("authentication.attempt", "throw")>>) :
           e \in CollaboratorErrors("authentication.attempt")}
          \cup {Failure(Msg(ThrottledReason), <<Call("authentication.attempt", JsFalse)>>)}
          \cup {Threw(e, permitted \o <<Call("authentication.authenticate", "throw")>>) :
                  e \in CollaboratorErrors("authentication.authenticate")}
          \cup (IF loginUser # Null
                THEN Issue(loginUser, checked)
                ELSE {Failure(Msg(BadCredentialsReason), checked)})

\* login without the guard on isCloudPaired.
LoginIgnoringPairing(user, password, ip) == LoginUnpaired(user, password, ip)

\* The outcomes of login(user, password, ip).
Login(user, password, ip) ==
    IF isCloudPaired THEN {Failure(Msg(RootDisabledReason), <<>>)}
    ELSE LoginUnpaired(user, password, ip)

\* ------------------------------------------------------------ refreshToken
\* err.message || 'The token is invalid or expired'
ReasonOf(error) == IF error = NoMessage THEN Msg(TokenInvalidMessage) ELSE error

\* lines 155-166: whatever authenticateWithError returns, a principal or
\* false, is handed to buildToken; whatever is thrown becomes the reason.
RefreshVerified(authHeader) ==
    UNION {IF o.threw
           THEN {Failure(ReasonOf(o.error), o.calls)}
           ELSE {IF i.threw THEN Failure(ReasonOf(i.error), i.calls) ELSE i :
                   i \in Issue(o.ret, o.calls)}
           : o \in AuthenticateWithError(authHeader)}

\* lines 139-153: with login disabled the token of a Bearer header is echoed.
RefreshPassthrough(authHeader) ==
    IF ~authHeader.defined THEN {Threw(Msg("TypeError"), <<>>)}
    ELSE IF SplitScheme(authHeader) # "Bearer"
    THEN {Failure(WrongSchemeMessage(SplitScheme(authHeader)), <<>>)}
    ELSE {Success(SplitToken(authHeader), <<>>)}

RefreshToken(authHeader) ==
    IF ~loginEnabled THEN RefreshPassthrough(authHeader) ELSE RefreshVerified(authHeader)

\* ---------------------------------------------------- getAuthenticationInfo
NoInfo == [isCloudPaired |-> FALSE, botId |-> "", loginEnabled |-> FALSE, useCloud |-> FALSE,
           botEnv |-> "", cloudEndpoint |-> ""]

\* lines 58-65: the object getAuthenticationInfo returns when cloud.getBotEnv()
\* answers env and cloud.getCloudEndpoint() answers endpoint.  The endpoint
\* is asked for only when paired: isCloudPaired && cloud.getCloudEndpoint().
AuthenticationInfo(env, endpoint) ==
    [isCloudPaired |-> isCloudPaired, botId |-> botId, loginEnabled |-> loginEnabled,
     useCloud |-> useCloud, botEnv |-> env,
     cloudEndpoint |-> IF isCloudPaired THEN endpoint ELSE JsFalse]
InfoCalls(env, endpoint) ==
    <<Call("cloud.getBotEnv", env)>>
      \o (IF isCloudPaired THEN <<Call("cloud.getCloudEndpoint", endpoint)>> ELSE <<>>)

\* ----------------------------------------------------------------- actions
Record(op, header, presented, cred, o) ==
    [op |-> op, header |-> header, presented |-> presented, cred |-> cred,
     threw |-> o.threw, error |-> o.error, ret |-> o.ret, success |-> o.success,
     reason |-> o.reason, token |-> o.token,
     issuer |-> IF o.token.form = "jwt" THEN op ELSE "none", calls |-> o.calls,
     info |-> NoInfo]

\* No call on record: the state after construction.
Idle == Record("none", NoHeader, NoToken, NoCredentials, Returned(Undefined, <<>>))

\* What is left of a call once the environment has changed: the token the
\* client received, and the operation it received it from.
Kept(call) == [Idle EXCEPT !.token = call.token, !.issuer = call.issuer]

Config == <<useCloud, isCloudPaired, botId, loginEnabled, hookPresent>>

\* The headers a client can present: any of Headers, or the token the
\* preceding call returned.
Presentable == Headers \cup (IF last.token.form = "jwt" THEN {Bearer(last.token)} ELSE {})
PresentableTokens == Tokens \cup {NoToken} \cup (IF last.token.form = "jwt" THEN {last.token} ELSE {})

DoLogin ==
    /\ \E user \in Users, password \in Passwords, ip \in Ips :
         \E o \in Login(user, password, ip) :
            last' = Record("login", NoHeader, NoToken,
                           [user |-> user, password |-> password, ip |-> ip], o)
    /\ UNCHANGED <<Config, secret, certificate, now>>

DoAuthenticateWithError ==
    /\ \E h \in Presentable :
         \E o \in AuthenticateWithError(h) :
            last' = Record("authenticateWithError", h,
                           IF h.defined THEN SplitToken(h) ELSE NoToken, NoCredentials, o)
    /\ UNCHANGED <<Config, secret, certificate, now>>

DoAuthenticate ==
    /\ \E h \in Presentable :
         \E o \in Authenticate(h) :
            last' = Record("authenticate", h,
                           IF h.defined THEN SplitToken(h) ELSE NoToken, NoCredentials, o)
    /\ UNCHANGED <<Config, secret, certificate, now>>

DoGetUserIdentity ==
    /\ \E t \in PresentableTokens :
         \E o \in GetUserIdentity(t) :
            last' = Record("getUserIdentity", NoHeader, t, NoCredentials, o)
    /\ UNCHANGED <<Config, secret, certificate, now>>

DoRefreshToken ==
    /\ \E h \in Presentable :
         \E o \in RefreshToken(h) :
            last' = Record("refreshToken", h,
                           IF h.defined THEN SplitToken(h) ELSE NoToken, NoCredentials, o)
    /\ UNCHANGED <<Config, secret, certificate, now>>

\* The Cloud collaborator answers anew at every call.
DoGetAuthenticationInfo ==
    /\ \E env \in BotEnvs, endpoint \in (IF isCloudPaired THEN CloudEndpoints ELSE {JsFalse}) :
         last' = [Record("getAuthenticationInfo", NoHeader, NoToken, NoCredentials,
                         Returned("object", InfoCalls(env, endpoint)))
                    EXCEPT !.info = AuthenticationInfo(env, endpoint)]
    /\ UNCHANGED <<Config, secret, certificate, now>>

\* The environment: time passes, and the secret is rotated out of band.
Tick ==
    /\ now < MaxTime
    /\ now' = now + 1
    /\ last' = Kept(last)
    /\ UNCHANGED <<Config, secret, certificate>>

RotateSecret ==
    /\ \E s \in Secrets \ {secret} : secret' = s
    /\ last' = Kept(last)
    /\ UNCHANGED <<Config, certificate, now>>

\* Lines 19-24: construction.  botId is bound only when paired.
Init ==
    /\ useCloud \in BOOLEAN
    /\ \E paired \in BOOLEAN : isCloudPaired = (useCloud /\ paired)
    /\ botId \in (IF isCloudPaired THEN BotIds ELSE {Undefined})
    /\ loginEnabled \in BOOLEAN
    /\ hookPresent \in BOOLEAN
    /\ secret \in Secrets
    /\ certificate \in Certificates
    /\ now = 0
    /\ last = Idle

Next ==
    \/ DoLogin
    \/ DoAuthenticateWithError
    \/ DoAuthenticate
    \/ DoGetUserIdentity
    \/ DoRefreshToken
    \/ DoGetAuthenticationInfo
    \/ Tick
    \/ RotateSecret

Spec == Init /\ [][Next]_vars

\* =================================================================== claims
\* What the log of a call says about its collaborators.
CallsOf(call) == {call.calls[i] : i \in 1..Len(call.calls)}
CollaboratorThrew(call) == \E c \in CallsOf(call) : c.out = "throw" /\ c.fn # "jwt.verify"
HookRejected(call) == Call("authentication.verifyUser", JsFalse) \in CallsOf(call)
Called(call, fn) == \E c \in CallsOf(call) : c.fn = fn

\* A call stays on record only while the clock and the secret are those it
\* ran under, so the present values are the values of the call.
\* The presented token was signed with the verifier's material, under the
\* algorithm of the pairing state, and has not expired.
CorrectlySigned(call) ==
    /\ call.presented.form = "jwt"
    /\ call.presented.alg = (IF isCloudPaired THEN "RS256" ELSE "HS256")
    /\ call.presented.key = (IF isCloudPaired THEN certificate ELSE secret)
Unexpired(call) == now < call.presented.exp
RightAudience(call) == call.presented.aud = <<"urn:bot/", botId>>
BearerHeader(call) == call.header.defined /\ call.header.words[1].scheme = "Bearer"

\* ------------------------------------------------------------------- C1
\* C1 (as claimed): while unpaired, when the throttle gate permits and the
\* credential collaborator returns a principal, login returns
\* {success: true, token}, and an authenticate('Bearer ' + token) that follows
\* before expiry, under the secret the token was signed with (its
\* collaborators answering, the hook not objecting), returns the principal.
C1_LoginTokenAccepted ==
    [][ /\ ( /\ last.op = "login"
             /\ ~isCloudPaired
             /\ Call("authentication.attempt", JsTrue) \in CallsOf(last)
             /\ Call("authentication.authenticate", last.cred.user) \in CallsOf(last)
             /\ ~CollaboratorThrew(last) )
           => (last.success = JsTrue /\ last.token.form = "jwt")
        /\ ( /\ last.issuer = "login"
             /\ last'.op = "authenticate"
             /\ last'.header = Bearer(last.token)
             /\ now' < last.token.exp
             /\ secret' = last.token.key
             /\ ~CollaboratorThrew(last')
             /\ ~HookRejected(last') )
           => last'.ret = last.token.user
      ]_vars

\* ------------------------------------------------------------------- C2
\* The header of a call passes every check of authenticateWithError.
PassesEveryCheck(call) ==
    /\ BearerHeader(call)
    /\ CorrectlySigned(call)
    /\ Unexpired(call)
    /\ ~CollaboratorThrew(call)
    /\ ~HookRejected(call)
    /\ ~call.presented.identity_proof_only
    /\ RightAudience(call)

\* C2 (as claimed): with login enabled, refreshToken returns success:true
\* only for a header that passes every check of authenticateWithError; for
\* any other header it returns {success: false, reason} with a non-empty
\* reason and issues no token.
C2_RefreshOnlyVerified ==
    (last.op = "refreshToken" /\ loginEnabled /\ ~PassesEveryCheck(last))
      => /\ ~last.threw
         /\ last.success = JsFalse
         /\ last.reason # NoMessage
         /\ last.token = NoToken
         /\ ~Called(last, "jwt.sign")

\* ------------------------------------------------------------------- C3
\* C3: while paired, login with any (user, password, ip) returns
\* success:false with the root-login-disabled reason, calls neither
\* authentication.attempt nor authentication.authenticate, and issues no token.
C3_PairedLoginDisabled ==
    (last.op = "login" /\ isCloudPaired)
      => /\ ~last.threw
         /\ last.success = JsFalse
         /\ last.reason = Msg(RootDisabledReason)
         /\ ~Called(last, "authentication.attempt")
         /\ ~Called(last, "authentication.authenticate")
         /\ ~Called(last, "jwt.sign")
         /\ last.token = NoToken

C3_Witness ==
    /\ last.op = "login"
    /\ isCloudPaired
    /\ last.cred.user = RootUser
    /\ last.cred.password = RootPassword
    /\ last.success = JsFalse

\* ------------------------------------------------------------------- C4
\* A login call that passed the throttle gate and was rejected by the
\* credential collaborator.
RejectedLogin(call) ==
    /\ call.op = "login"
    /\ ~isCloudPaired
    /\ Call("authentication.attempt", JsTrue) \in CallsOf(call)
    /\ Call("authentication.authenticate", Null) \in CallsOf(call)
WrongUser(call) == call.cred.user # RootUser /\ call.cred.password = RootPassword
WrongPassword(call) == call.cred.user = RootUser /\ call.cred.password # RootPassword
LoginResult(call) == <<call.threw, call.success, call.reason, call.token>>

\* C4: of two unpaired, non-throttled login calls rejected by the credential
\* collaborator, one for a wrong username and the other for a wrong
\* password, the results are identical: success:false and the same reason.
C4_SameRejection ==
    [][ ( /\ RejectedLogin(last) /\ RejectedLogin(last')
          /\ \/ WrongUser(last) /\ WrongPassword(last')
             \/ WrongPassword(last) /\ WrongUser(last') )
        => /\ LoginResult(last') = LoginResult(last)
           /\ last'.success = JsFalse
           /\ ~last'.threw
      ]_vars

C4_Witness ==
    /\ RejectedLogin(last)
    /\ WrongPassword(last)
    /\ last.reason = Msg(BadCredentialsReason)

\* ------------------------------------------------------------------- C5
\* C5: a token whose algorithm is not the one of the pairing state (RS256
\* when paired, HS256 when unpaired) is rejected by authenticate, also when
\* it is signed with key material the verifier holds.
C5_OtherAlgorithmRejected ==
    ( /\ last.op \in {"authenticate"}
      /\ last.presented.form = "jwt"
      /\ last.presented.alg # (IF isCloudPaired THEN "RS256" ELSE "HS256") )
      => (~last.threw /\ last.ret = JsFalse)

\* An HS256 token keyed with the certificate, otherwise in order, presented
\* to the paired verifier and rejected.
C5_Witness ==
    /\ last.op = "authenticate"
    /\ isCloudPaired
    /\ BearerHeader(last)
    /\ last.presented.form = "jwt"
    /\ last.presented.alg = "HS256"
    /\ last.presented.key = certificate
    /\ Unexpired(last)
    /\ RightAudience(last)
    /\ ~last.presented.identity_proof_only
    /\ ~CollaboratorThrew(last)
    /\ last.ret = JsFalse

\* ------------------------------------------------------------------- C6
\* A call presenting a proof-only token that is otherwise in order, with no
\* collaborator failing during the call.
ProofOnlyInOrder(call) ==
    /\ call.presented.form = "jwt"
    /\ call.presented.identity_proof_only
    /\ call.presented.user \in Principals
    /\ CorrectlySigned(call)
    /\ Unexpired(call)
    /\ RightAudience(call)
    /\ ~CollaboratorThrew(call)

NotASession(call) ==
    (call.op \in {"authenticate", "authenticateWithError"} /\ BearerHeader(call))
      => call.ret # call.presented.user

\* C6 (as claimed): a correctly signed, unexpired token of the right
\* audience carrying identity_proof_only is never returned as a session by
\* authenticate or authenticateWithError, and getUserIdentity returns its
\* principal.
C6_ProofOnlyAsClaimed ==
    ProofOnlyInOrder(last)
      => /\ NotASession(last)
         /\ (last.op = "getUserIdentity")
              => (~last.threw /\ last.ret = last.presented.user)

\* C6 (amended): ... and getUserIdentity returns its principal provided that
\* the identity hook, when there is one, answers true; it returns false when
\* the hook answers false.
C6_ProofOnlyIdentity ==
    ProofOnlyInOrder(last)
      => /\ NotASession(last)
         /\ (last.op = "getUserIdentity")
              => /\ ~last.threw
                 /\ last.ret = (IF HookRejected(last) THEN JsFalse ELSE last.presented.user)

C6_Witness ==
    /\ last.op = "getUserIdentity"
    /\ ProofOnlyInOrder(last)
    /\ Call("authentication.verifyUser", JsTrue) \in CallsOf(last)
    /\ last.ret \in Principals

\* ------------------------------------------------------------------- C7
\* C7 (as claimed): login and refreshToken never throw; for every input and
\* every collaborator outcome the call resolves to {success: true, token} or
\* to {success: false, reason}.
C7_StructuredResult ==
    (last.op \in {"login", "refreshToken"})
      => /\ ~last.threw
         /\ \/ last.success = JsTrue /\ last.reason = NoMessage
            \/ last.success = JsFalse /\ last.reason # NoMessage /\ last.token = NoToken

\* ------------------------------------------------------------------- C8
\* C8 (as claimed): getUserIdentity never throws; the call resolves to a
\* principal or to false.
C8_IdentityNeverThrows ==
    (last.op = "getUserIdentity")
      => (~last.threw /\ last.ret \in Principals \cup {JsFalse})

\* C8 (amended): getUserIdentity throws exactly when the token does not
\* verify (bad signature, wrong algorithm, expired, malformed) or a
\* collaborator fails (key fetch, identity hook); in every other case it
\* resolves to a principal or to false.
C8_IdentityThrowsOnFailure ==
    (last.op = "getUserIdentity")
      => /\ last.threw <=> \/ ~(CorrectlySigned(last) /\ Unexpired(last))
                           \/ CollaboratorThrew(last)
         /\ ~last.threw => last.ret \in Principals \cup {JsFalse}

\* An expired token, otherwise in order, makes getUserIdentity throw.
C8_Witness ==
    /\ last.op = "getUserIdentity"
    /\ CorrectlySigned(last)
    /\ ~Unexpired(last)
    /\ ~CollaboratorThrew(last)
    /\ last.threw

\* ------------------------------------------------------------------- C9
\* C9: authenticate never throws; for every header and every collaborator
\* failure the call resolves to a principal or to false.
C9_AuthenticateNeverThrows ==
    (last.op = "authenticate")
      => (~last.threw /\ last.ret \in Principals \cup {JsFalse})

\* The key fetch failed during authenticate, which returned false.
C9_Witness ==
    /\ last.op = "authenticate"
    /\ BearerHeader(last)
    /\ CollaboratorThrew(last)
    /\ ~last.threw
    /\ last.ret = JsFalse

\* ------------------------------------------------------------------ C10
\* C10 (as claimed): whenever the header has a wrong scheme, or the token
\* has a bad signature, a wrong algorithm, is expired, has an audience
\* mismatch or is proof-only, authenticateWithError throws the scheme error
\* or the token-invalid error and returns no value.
C10_FailuresThrow ==
    ( /\ last.op = "authenticateWithError"
      /\ last.header.defined
      /\ \/ ~BearerHeader(last)
         \/ ~CorrectlySigned(last)
         \/ ~Unexpired(last)
         \/ ~RightAudience(last)
         \/ last.presented.identity_proof_only )
      => /\ last.threw
         /\ last.error \in {WrongSchemeMessage(last.header.words[1].scheme), Msg(TokenInvalidMessage)}

\* ------------------------------------------------------------------ C11
\* The part of the header after its first space, as words.
AfterFirstSpace(header) == Tail(header.words)
WordOf(token) == [scheme |-> "", token |-> token]

Passthrough(call) == call.op = "refreshToken" /\ ~loginEnabled /\ call.header.defined

\* C11 (as claimed): with login disabled refreshToken verifies nothing and
\* calls no collaborator; for a header of scheme 'Bearer' it returns
\* {success: true, token}, the token being the part of the header after the
\* first space; for any other scheme it returns success:false with the
\* scheme error.
C11_PassthroughEchoesRest ==
    Passthrough(last)
      => /\ last.calls = <<>>
         /\ ~last.threw
         /\ IF last.header.words[1].scheme = "Bearer"
            THEN /\ last.success = JsTrue
                 /\ Len(last.header.words) >= 2
                      => AfterFirstSpace(last.header) = <<WordOf(last.token)>>
            ELSE /\ last.success = JsFalse
                 /\ last.reason = WrongSchemeMessage(last.header.words[1].scheme)

\* ------------------------------------------------------------------ C12
FnsOf(call) == [i \in 1..Len(call.calls) |-> call.calls[i].fn]
IsPrefix(s, t) == Len(s) <= Len(t) /\ s = SubSeq(t, 1, Len(s))
ThrowsOnlyLast(call) == \A i \in 1..(Len(call.calls) - 1) : call.calls[i].out # "throw"

\* Material fetch, signature check, identity hook; then, in refreshToken,
\* the issuance.
VerificationOrder ==
    <<IF isCloudPaired THEN "cloud.getCertificate" ELSE "authentication.getSecret", "jwt.verify">>
      \o (IF hookPresent THEN <<"authentication.verifyUser">> ELSE <<>>)
RefreshOrder == VerificationOrder \o <<"authentication.getSecret", "jwt.sign">>

\* C12: in authenticate, authenticateWithError and refreshToken a header of
\* a scheme other than 'Bearer' fails before any collaborator is called; for
\* a Bearer header the calls come in the order material fetch, signature
\* check, identity hook, a failing call ending the sequence, and the hook is
\* called before the proof-only and audience checks decide.
C12_SchemeFirstThenOrder ==
    (last.op \in {"authenticate", "authenticateWithError", "refreshToken"} /\ last.header.defined)
      => IF last.header.words[1].scheme # "Bearer"
         THEN last.calls = <<>> /\ last.token = NoToken
         ELSE \/ last.op = "refreshToken" /\ ~loginEnabled /\ last.calls = <<>>
              \/ /\ last.op = "refreshToken" => loginEnabled
                 /\ last.calls # <<>>
                 /\ IsPrefix(FnsOf(last),
                             IF last.op = "refreshToken" THEN RefreshOrder ELSE VerificationOrder)
                 /\ ThrowsOnlyLast(last)
                 /\ (hookPresent /\ Call("jwt.verify", "ok") \in CallsOf(last))
                      => Called(last, "authentication.verifyUser")

\* A proof-only token of the wrong audience: the hook was still asked, after
\* the fetch and the signature check.
C12_Witness ==
    /\ last.op = "authenticateWithError"
    /\ BearerHeader(last)
    /\ last.presented.identity_proof_only
    /\ ~RightAudience(last)
    /\ Len(last.calls) = 3
    /\ last.calls[3].fn = "authentication.verifyUser"
    /\ last.ret = JsFalse

\* ------------------------------------------------------------------ C13
\* C13: in an unpaired login the throttle gate is consulted first; when it
\* denies the attempt login returns success:false with the too-many-attempts
\* reason, authentication.authenticate is not called and no token is issued.
C13_ThrottleFirst ==
    (last.op = "login" /\ ~isCloudPaired)
      => /\ last.calls # <<>>
         /\ last.calls[1].fn = "authentication.attempt"
         /\ Called(last, "authentication.authenticate")
              => last.calls[1] = Call("authentication.attempt", JsTrue)
         /\ Call("authentication.attempt", JsFalse) \in CallsOf(last)
              => /\ ~last.threw
                 /\ last.success = JsFalse
                 /\ last.reason = Msg(ThrottledReason)
                 /\ last.calls = <<Call("authentication.attempt", JsFalse)>>
                 /\ last.token = NoToken

\* The root user's own credentials, throttled.
C13_Witness ==
    /\ last.op = "login"
    /\ ~isCloudPaired
    /\ last.cred.user = RootUser
    /\ last.cred.password = RootPassword
    /\ last.calls = <<Call("authentication.attempt", JsFalse)>>
    /\ last.reason = Msg(ThrottledReason)

\* ------------------------------------------------------------------ C14
Snapshot(info) == <<info.isCloudPaired, info.botId, info.botEnv, info.cloudEndpoint>>

\* C14 (as claimed): the paired flag, the bot identifier, the bot environment
\* label and the cloud endpoint are fixed at construction: whatever the Cloud
\* collaborator answers later, getAuthenticationInfo returns the same four
\* values as before, and the endpoint is exposed only when paired.
C14_SnapshotFixed ==
    [][ /\ (last'.op = "getAuthenticationInfo" /\ ~isCloudPaired)
             => last'.info.cloudEndpoint = JsFalse
        /\ (last.op = "getAuthenticationInfo" /\ last'.op = "getAuthenticationInfo")
             => Snapshot(last'.info) = Snapshot(last.info)
      ]_vars

\* ------------------------------------------------------------------ C15
Answering(call) == ~CollaboratorThrew(call) /\ ~HookRejected(call)

VerifyingOps == {"authenticate", "authenticateWithError", "getUserIdentity"}

\* C16: authenticate, authenticateWithError and getUserIdentity return a
\* principal only for a token whose aud is 'urn:bot/<botId>', botId being the
\* identifier captured at construction; a token of a missing or different
\* audience is never accepted, paired or not.
C16_AudienceRequired ==
    (last.op \in VerifyingOps /\ last.presented.aud # <<"urn:bot/", botId>>)
      => (last.ret \notin Principals /\ (~last.threw => last.ret = JsFalse))

\* A token in order but for its audience, turned down by getUserIdentity.
C16_Witness ==
    /\ last.op = "getUserIdentity"
    /\ CorrectlySigned(last)
    /\ Unexpired(last)
    /\ Answering(last)
    /\ last.presented.user \in Principals
    /\ last.presented.aud # NoAud
    /\ ~RightAudience(last)
    /\ last.ret = JsFalse

\* ------------------------------------------------------------------ C17
\* What a verifying call returns when the hook answers true.
AsIfHookTrue(call) ==
    IF call.op # "getUserIdentity" /\ call.presented.identity_proof_only THEN JsFalse
    ELSE IF ~RightAudience(call) THEN JsFalse
    ELSE call.presented.user

\* C17: the identity hook is a further gate: it is called only when the
\* collaborator exposes it and right after the signature check succeeded;
\* when it answers false none of authenticate, authenticateWithError and
\* getUserIdentity returns the principal; without a hook they return what
\* they return when the hook answers true.
C17_HookGate ==
    (last.op \in VerifyingOps)
      => /\ \A i \in 1..Len(last.calls) :
              last.calls[i].fn = "authentication.verifyUser"
                => (hookPresent /\ i > 1 /\ last.calls[i - 1] = Call("jwt.verify", "ok"))
         /\ HookRejected(last) => (~last.threw /\ last.ret = JsFalse)
         /\ (Call("jwt.verify", "ok") \in CallsOf(last)
               /\ (~hookPresent \/ Call("authentication.verifyUser", JsTrue) \in CallsOf(last)))
              => (~last.threw /\ last.ret = AsIfHookTrue(last))

\* A token in order, turned down because the hook answered false.
C17_Witness ==
    /\ last.op = "authenticate"
    /\ BearerHeader(last)
    /\ CorrectlySigned(last)
    /\ Unexpired(last)
    /\ RightAudience(last)
    /\ ~last.presented.identity_proof_only
    /\ last.presented.user \in Principals
    /\ HookRejected(last)
    /\ last.ret = JsFalse

\* ------------------------------------------------------------------ C18
KeyFetches(call) ==
    {i \in 1..Len(call.calls) :
       call.calls[i].fn \in {"authentication.getSecret", "cloud.getCertificate"}}

\* The one fetch of a verification: the first call made, to getCertificate
\* when paired and to getSecret otherwise, answered with the present material.
OneVerificationFetch(call) ==
    /\ call.calls # <<>>
    /\ call.calls[1].fn = (IF isCloudPaired THEN "cloud.getCertificate" ELSE "authentication.getSecret")
    /\ call.calls[1].out \in {IF isCloudPaired THEN certificate ELSE secret, "throw"}

\* Every jwt.sign is preceded by its own fetch of the present secret.
OneFetchPerSign(call) ==
    \A i \in 1..Len(call.calls) :
       call.calls[i].fn = "jwt.sign"
         => (i > 1 /\ call.calls[i - 1] = Call("authentication.getSecret", secret))

\* A token signed under another secret than the present one is not accepted.
OldSecretRejected(call) ==
    (call.op \in VerifyingOps /\ ~isCloudPaired /\ call.presented.form = "jwt"
       /\ call.presented.key # secret)
      => call.ret \notin Principals

\* Unpaired, a token issued before the secret was rotated is turned down
\* afterwards.
RotatedThenRejected ==
    (~isCloudPaired /\ last.issuer \in {"login", "refreshToken"}
       /\ last'.op = "authenticate" /\ last'.header = Bearer(last.token) /\ last.token.key # secret')
      => last'.ret = JsFalse

\* C18 (as claimed): key material is fetched at every sign and verify and
\* never cached: a token signed under a secret that was rotated since is
\* rejected, and every buildToken, authenticateWithError and getUserIdentity
\* call makes exactly one key fetch, from getCertificate when paired and from
\* getSecret when unpaired.
C18_OneFetchEveryCall ==
    [][ /\ OldSecretRejected(last')
        /\ RotatedThenRejected
        /\ OneFetchPerSign(last')
        /\ (last'.op \in {"authenticateWithError", "getUserIdentity"})
             => (OneVerificationFetch(last') /\ Cardinality(KeyFetches(last')) = 1)
      ]_vars

\* C18 (amended): ... and every buildToken call, every getUserIdentity call
\* and every authenticateWithError call that gets past the scheme check makes
\* exactly one key fetch; authenticateWithError makes none for a header that
\* is missing or of another scheme than 'Bearer'.
C18_OneFetchPastScheme ==
    [][ /\ OldSecretRejected(last')
        /\ RotatedThenRejected
        /\ OneFetchPerSign(last')
        /\ (last'.op \in {"authenticateWithError", "getUserIdentity"})
             => IF last'.op = "authenticateWithError" /\ ~BearerHeader(last')
                THEN KeyFetches(last') = {}
                ELSE OneVerificationFetch(last') /\ Cardinality(KeyFetches(last')) = 1
        /\ (last'.op = "login" /\ last'.success = JsTrue)
             => Cardinality(KeyFetches(last')) = 1
        /\ (last'.op = "refreshToken" /\ loginEnabled /\ last'.success = JsTrue)
             => (OneVerificationFetch(last') /\ Cardinality(KeyFetches(last')) = 2)
      ]_vars

\* A token in order but signed under the other secret: one fetch, of the
\* present secret, and the token is turned down.
C18_Witness ==
    /\ last.op = "authenticateWithError"
    /\ ~isCloudPaired
    /\ BearerHeader(last)
    /\ last.presented.form = "jwt"
    /\ last.presented.alg = "HS256"
    /\ last.presented.key \in Secrets \ {secret}
    /\ Unexpired(last)
    /\ RightAudience(last)
    /\ last.calls = <<Call("authentication.getSecret", secret), Call("jwt.verify", "throw")>>
    /\ last.threw

\* ------------------------------------------------------------------ C19
\* C19 (as claimed): every token this core issues carries a principal as
\* user claim: buildToken is called with the principal the credential
\* collaborator returned, or with the user claim of a token that passed every
\* check, never with false, null or undefined.
C19_IssuedForPrincipal ==
    (last.op \in {"login", "refreshToken"} /\ Called(last, "jwt.sign"))
      => last.token.user \in Principals

\* ------------------------------------------------------------------ C20
\* C20 (as claimed): with login enabled, when refreshToken returns
\* {success: true, token}, an authenticate('Bearer ' + token) that follows in
\* the same pairing state, before expiry and under unchanged key material
\* (its collaborators answering, the hook not objecting) accepts the token,
\* unpaired and paired alike.
C20_RefreshedTokenAccepted ==
    [][ ( /\ loginEnabled
          /\ last.issuer = "refreshToken"
          /\ last.token.user \in Principals
          /\ last'.op = "authenticate"
          /\ last'.header = Bearer(last.token)
          /\ now' < last.token.exp
          /\ secret' = last.token.key
          /\ Answering(last') )
        => last'.ret = last.token.user
      ]_vars

====
